---- MODULE Spec2Model ----
(***************************************************************************)
(* Job eligibility and safe-retry scheduling engine of decision_data:      *)
(* the background audio processor (SafeAudioProcessor), the manual         *)
(* transcription path of the HTTP API, the processing-jobs table and the   *)
(* daily summary scheduler with its tracking table.                        *)
(*                                                                         *)
(* Time is counted in whole minutes (UTC).  An Optional value of the code  *)
(* is a sequence of length 0 (None / attribute absent) or 1.               *)
(***************************************************************************)
EXTENDS Integers, Sequences, FiniteSets, TLC

\* ------------------------------------------------------------------ bounds
MaxJobs == 4
MaxTime == 30
MaxFaults == 3
Margin == 6
MaxRestarts == 1
MaxDays == 2
TickMinutes == 10

\* ------------------------------------------------------- program constants
MAX_FILE_SIZE_MB == 5
MAX_RETRIES == 3
PROCESSING_TIMEOUT_MINUTES == 5
RETRY_BACKOFF_MINUTES == 10
MAX_AGE_HOURS == 24
schedule_check_interval_seconds == 300
DEFAULT_TIMEZONE_OFFSET_HOURS == 0
TRIGGER_WINDOW_MINUTES == 5

VARIABLES
    now,        \* datetime.utcnow(), in minutes
    faulty,     \* number of store (DynamoDB) calls that are still going to raise
    files,      \* audio files table: sequence indexed by file_id
    jobs,       \* panzoto-processing-jobs: sequence indexed by job_id
    worker,     \* SafeAudioProcessor's loop: pc, scan result, eligible list
    threads,    \* background tasks of the API and asyncio.to_thread workers
    transcripts, \* panzoto-transcripts: the audio_file_id of each saved transcript
    requests,   \* history: number of manual transcription requests accepted
    attempts,   \* history: per job, attempts the worker started on it
    lastCall,   \* history: the worker's last call of is_job_eligible or
                \* process_single_job: its argument, the stored job before and after
    prefs,      \* panzoto-user-preferences: the item of each user
    sched,      \* DailySummaryScheduler: its fields and its place in a pass
    tracking,   \* panzoto-daily-summary-tracking: items keyed (user_id, date)
    events,     \* history: the scheduler's evaluation passes and restarts
    trigger,    \* one evaluation of the trigger computation: inputs and result
    peer        \* a second DailySummaryScheduler process on the same tables

schedVars == <<prefs, sched, tracking, events, trigger, peer>>

vars == <<now, faulty, files, jobs, worker, threads, transcripts, requests, attempts,
          lastCall, prefs, sched, tracking, events, trigger, peer>>

\* ------------------------------------------------------------- the stores

\* Outcomes of one store call: it succeeds, or (faulty store only) raises.
StoreOutcomes == IF faulty > 0 THEN BOOLEAN ELSE {TRUE}

\* The store calls of one step, each a pair <<made, ok>>: a call that is not
\* made does not raise, and the calls that raise are taken off the count.
Raising(calls) == Cardinality({ i \in DOMAIN calls : ~calls[i][2] })

StoreCalls(calls) ==
    /\ \A i \in DOMAIN calls : ~calls[i][1] => calls[i][2]
    /\ Raising(calls) <= faulty
    /\ faulty' = faulty - Raising(calls)

UserIds == {"u1", "u2"}

\* the authenticated user of the API requests
CurrentUser == "u1"

JobIds == 1..Len(jobs)
FileIds == 1..Len(files)

\* file_size in bytes, as sent by the client
FileSizes == {MAX_FILE_SIZE_MB * 1024 * 1024, MAX_FILE_SIZE_MB * 1024 * 1024 + 1}

\* client-side recorded_at, as minutes before the upload
RecordedAges == {0, MAX_AGE_HOURS * 60 - 2 * TickMinutes, MAX_AGE_HOURS * 60 + 1}

Min(a, b) == IF a < b THEN a ELSE b

\* the attempts history saturates here
MaxAttemptsCounted == MAX_RETRIES + 2

\* UserTranscriptionService.create_processing_job: the item put into the table
NewJobItem(user_id, job_type, audio_file_id, created_at, aware) ==
    [ user_id        |-> user_id,
      job_type       |-> job_type,
      status         |-> "pending",
      created_at     |-> created_at,
      created_aware  |-> aware,
      retry_count    |-> 0,
      audio_file_id  |-> audio_file_id,
      last_attempt_at |-> <<>>,
      completed_at   |-> <<>>,
      error_message  |-> "" ]

create_processing_job(js, user_id, job_type, audio_file_id, created_at, aware) ==
    Append(js, NewJobItem(user_id, job_type, audio_file_id, created_at, aware))

\* UserTranscriptionService.update_job_status: an unconditional update_item
update_job_status(js, job_id, status, error_message, t) ==
    [js EXCEPT ![job_id] =
        [@ EXCEPT !.status = status,
                  !.completed_at = IF status \in {"completed", "failed"} THEN <<t>> ELSE @,
                  !.error_message = IF error_message # "" THEN error_message ELSE @]]

\* SafeAudioProcessor.mark_job_failed: the write's exception is swallowed
mark_job_failed(js, job_id, error_message, t, ok) ==
    IF ok THEN update_job_status(js, job_id, "failed", error_message, t) ELSE js

\* SafeAudioProcessor.update_job_attempt: the write's exception is swallowed
update_job_attempt(js, job_id, current_retry_count, t, ok) ==
    IF ok
    THEN [js EXCEPT ![job_id] =
            [@ EXCEPT !.retry_count = current_retry_count + 1,
                      !.last_attempt_at = <<t>>]]
    ELSE js

\* ------------------------------------------------------ eligibility rules

MsgMaxRetries == "Exceeded maximum retries (" \o ToString(MAX_RETRIES) \o ")"
MsgTooOld == "Job expired - too old"

\* is_job_eligible with the retry limit compared by > instead of >=
is_job_eligible_limit_exclusive(job, t) ==
    IF job.retry_count > MAX_RETRIES THEN "max_retries"
    ELSE IF job.created_aware THEN "raise"
    ELSE IF (t - job.created_at) > MAX_AGE_HOURS * 60 THEN "too_old"
    ELSE IF /\ job.retry_count > 0
            /\ job.last_attempt_at # <<>>
            /\ (t - job.last_attempt_at[1]) < RETRY_BACKOFF_MINUTES THEN "backoff"
    ELSE "eligible"

\* is_job_eligible without its backoff rule
is_job_eligible_no_backoff(job, t) ==
    IF job.retry_count >= MAX_RETRIES THEN "max_retries"
    ELSE IF job.created_aware THEN "raise"
    ELSE IF (t - job.created_at) > MAX_AGE_HOURS * 60 THEN "too_old"
    ELSE "eligible"

\* SafeAudioProcessor.is_job_eligible, the decision: which rule fires first.
\* "raise": now (naive) minus a timezone-aware created_at is a TypeError.
is_job_eligible(job, t) ==
    IF job.retry_count >= MAX_RETRIES THEN "max_retries"
    ELSE IF job.created_aware THEN "raise"
    ELSE IF (t - job.created_at) > MAX_AGE_HOURS * 60 THEN "too_old"
    ELSE IF /\ job.retry_count > 0
            /\ job.last_attempt_at # <<>>
            /\ (t - job.last_attempt_at[1]) < RETRY_BACKOFF_MINUTES THEN "backoff"
    ELSE "eligible"

\* what the caller of is_job_eligible gets
Returned(rule) ==
    IF rule = "eligible" THEN "True" ELSE IF rule = "raise" THEN "raise" ELSE "False"

\* the scan of get_eligible_pending_jobs: items with their key
PendingItems(js) ==
    { [job_id |-> j, item |-> js[j]] :
        j \in { k \in 1..Len(js) : js[k].status = "pending"
                                   /\ js[k].job_type = "transcription" } }

NoCall == [op |-> "none"]

\* ------------------------------------- the daily summary scheduler: data

MinutesPerDay == 24 * 60

\* datetime.hour, datetime.minute and datetime.date() of a time in minutes
HourOf(t) == (t \div 60) % 24
MinuteOf(t) == t % 60
DateOf(t) == t \div MinutesPerDay

\* a str is the sequence of its characters
Digits == <<"0", "1", "2", "3", "4", "5", "6", "7", "8", "9">>

IsDigit(c) == \E d \in DOMAIN Digits : Digits[d] = c

DigitValue(c) == (CHOOSE d \in DOMAIN Digits : Digits[d] = c) - 1

\* "HH:MM", the format of summary_time_local
TimeText(hh, mm) ==
    << Digits[(hh \div 10) + 1], Digits[(hh % 10) + 1], ":",
       Digits[(mm \div 10) + 1], Digits[(mm % 10) + 1] >>

\* the default of UserPreferences.summary_time_local, "09:00"
DEFAULT_SUMMARY_TIME_LOCAL == <<"0", "9", ":", "0", "0">>

\* str.split(sep), sep one character
RECURSIVE split(_, _)
split(s, sep) ==
    IF s = <<>> THEN << <<>> >>
    ELSE LET rest == split(Tail(s), sep)
         IN  IF Head(s) = sep THEN << <<>> >> \o rest
             ELSE << <<Head(s)>> \o rest[1] >> \o Tail(rest)

\* int(s) of decimal digits; anything else is a ValueError
IsInt(s) == s # <<>> /\ \A i \in DOMAIN s : IsDigit(s[i])

RECURSIVE IntValue(_)
IntValue(s) ==
    IF Len(s) = 1 THEN DigitValue(s[1])
    ELSE 10 * IntValue(SubSeq(s, 1, Len(s) - 1)) + DigitValue(s[Len(s)])

\* pref_hour_local, pref_minute = map(int, summary_time_local.split(':'));
\* <<>> stands for the ValueError of a failing int() or unpacking
ParseTime(summary_time_local) ==
    LET parts == split(summary_time_local, ":")
    IN  IF Len(parts) = 2 /\ IsInt(parts[1]) /\ IsInt(parts[2])
        THEN <<IntValue(parts[1]), IntValue(parts[2])>>
        ELSE <<>>

\* pref_hour_utc with the offset added instead of subtracted
pref_hour_utc_offset_added(pref_hour_local, timezone_offset_hours) ==
    (pref_hour_local + timezone_offset_hours) % 24

\* local hour to UTC hour, by subtracting the offset
pref_hour_utc(pref_hour_local, timezone_offset_hours) ==
    (pref_hour_local - timezone_offset_hours) % 24

\* time_match with the first minute of the window left out
time_match_after_first_minute(current_hour, current_minute, hour_utc, pref_minute) ==
    /\ current_hour = hour_utc
    /\ current_minute > pref_minute
    /\ current_minute < pref_minute + TRIGGER_WINDOW_MINUTES

\* time_match with a window one minute shorter
time_match_four_minutes(current_hour, current_minute, hour_utc, pref_minute) ==
    /\ current_hour = hour_utc
    /\ current_minute >= pref_minute
    /\ current_minute < pref_minute + TRIGGER_WINDOW_MINUTES - 1

\* the current UTC time is within the window of the preferred UTC time
time_match(current_hour, current_minute, hour_utc, pref_minute) ==
    /\ current_hour = hour_utc
    /\ current_minute >= pref_minute
    /\ current_minute < pref_minute + TRIGGER_WINDOW_MINUTES

\* get_users_with_daily_summary_enabled: the UserPreferences built from the
\* scanned items; summary_time_local and timezone_offset_hours are not passed
\* to the constructor and take their defaults.  [] when the scan fails.
get_users_with_daily_summary_enabled(table, ok) ==
    IF ok
    THEN { [user_id |-> u,
            summary_time_local |-> DEFAULT_SUMMARY_TIME_LOCAL,
            timezone_offset_hours |-> DEFAULT_TIMEZONE_OFFSET_HOURS] :
           u \in { v \in UserIds : table[v].enable_daily_summary } }
    ELSE {}

\* DailySummaryTrackingService.mark_summary_scheduled: put_item under the key
\* (user_id, date); a failing write returns False and stores nothing
mark_summary_scheduled(tr, user_id, job_id, date, ok) ==
    IF ok
    THEN { it \in tr : ~(it.user_id = user_id /\ it.date = date) }
         \cup {[user_id |-> user_id, date |-> date, job_id |-> job_id,
                status |-> "scheduled"]}
    ELSE tr

\* reset_daily_tracking that finds no record
reset_daily_tracking_nothing_found(tr, date, ok) == [u \in UserIds |-> <<>>]

\* DailySummaryTrackingService.reset_daily_tracking: user_id -> date of the
\* items of the given date whose status is 'scheduled'; {} when the scan fails
reset_daily_tracking(tr, date, ok) ==
    [u \in UserIds |->
        IF ok /\ \E it \in tr : /\ it.user_id = u
                                 /\ it.date = date
                                 /\ it.status = "scheduled"
        THEN <<date>> ELSE <<>>]

\* DailySummaryScheduler after start_scheduler has loaded today's records
Started(tr, t, ok) ==
    [pc |-> "sleep",
     scheduled_today |-> reset_daily_tracking(tr, DateOf(t), ok),
     last_schedule_check |-> <<>>,
     users |-> {}]

NoPreferences == [u \in UserIds |-> [enable_daily_summary |-> FALSE]]

NoTrigger == [out |-> <<>>]

\* a DailySummaryScheduler that was not started
NotRunning == [Started({}, 0, TRUE) EXCEPT !.pc = "off"]

\* ------------------------------------------------------------------- Init

WorkerIdle == [pc |-> "sleep", scanned |-> {}, eligible |-> <<>>]

InitCommon ==
    /\ files = <<>>
    /\ jobs = <<>>
    /\ worker = WorkerIdle
    /\ threads = {}
    /\ transcripts = <<>>
    /\ requests = 0
    /\ attempts = <<>>
    /\ lastCall = NoCall
    /\ tracking = {}
    /\ events = <<>>

\* the processor's specifications leave the scheduler idle
InitIdleScheduler ==
    /\ prefs = NoPreferences
    /\ sched = Started({}, 0, TRUE)
    /\ trigger = NoTrigger
    /\ peer = NotRunning

Init == InitCommon /\ InitIdleScheduler /\ now = 0 /\ faulty = 0

\* -------------------------------------------------- environment and clock

\* job ids that started work is still going to ask for (the table is bounded)
Reserved == Cardinality({ th \in threads : th.pc \in {"queued", "create"} })

\* a thread is at a call of the job store, which answers in far less than a minute
SomeThreadAtStore == \E th \in threads : th.pc \in {"create", "mark", "handler"}

\* an awaited thread has returned or raised: the event loop resumes its awaiter
SomeThreadFinished == \E th \in threads : th.awaited /\ th.pc \in {"done", "raised"}

\* asyncio.wait_for's timeout has expired for an awaited thread
TimedOut(th) ==
    /\ th.awaited
    /\ th.pc \in {"create", "mark", "work", "handler"}
    /\ now - th.started >= PROCESSING_TIMEOUT_MINUTES

SomeTimeoutDue == \E th \in threads : TimedOut(th)

\* The clock advances while the event loop is suspended (asyncio.sleep, or the
\* await of a worker thread); synchronous code runs in no time.
Tick ==
    /\ worker.pc \in {"sleep", "await"}
    /\ ~SomeThreadFinished
    /\ ~SomeThreadAtStore
    /\ ~SomeTimeoutDue
    /\ now + TickMinutes <= MaxTime
    /\ now' = now + TickMinutes
    /\ UNCHANGED <<faulty, files, jobs, worker, threads, transcripts, requests, attempts, lastCall>>
    /\ UNCHANGED schedVars

\* POST /api/audio-file: the audio file record and its transcription job,
\* created_at = recorded_at (timezone-aware when the client sent 'Z' or an offset).
\* An upload is admitted while the bounded table has room for its job and for
\* the jobs its MAX_RETRIES attempts create.
CreateAudioFile ==
    /\ worker.pc \in {"sleep", "await"}
    /\ Len(jobs) + Reserved + MAX_RETRIES < MaxJobs
    /\ Len(files) + MAX_RETRIES < MaxJobs
    /\ \E size \in FileSizes, age \in RecordedAges, aware \in BOOLEAN, ok \in StoreOutcomes :
          /\ StoreCalls(<< <<TRUE, ok>> >>)
          /\ files' = Append(files, [file_size |-> size, deleted |-> FALSE])
          /\ IF ok
             THEN /\ jobs' = create_processing_job(jobs, CurrentUser, "transcription",
                                    <<Len(files) + 1>>, now - age, aware)
                  /\ attempts' = Append(attempts, 0)
             ELSE UNCHANGED <<jobs, attempts>>
    /\ UNCHANGED <<now, worker, threads, transcripts, requests, lastCall>>
    /\ UNCHANGED schedVars

\* DELETE /api/audio-file/{file_id}: the record is deleted, its jobs are kept
DeleteAudioFile ==
    /\ worker.pc \in {"sleep", "await"}
    /\ \E f \in FileIds :
          /\ ~files[f].deleted
          /\ files' = [files EXCEPT ![f].deleted = TRUE]
    /\ UNCHANGED <<now, faulty, jobs, worker, threads, transcripts, requests, attempts, lastCall>>
    /\ UNCHANGED schedVars

\* AudioFileService.get_audio_file_by_id: None when absent or when the read fails
get_audio_file_by_id(f, ok) ==
    IF ok /\ f \in FileIds /\ ~files[f].deleted THEN <<files[f]>> ELSE <<>>

\* ------------------------------------------------------- the worker loop

\* get_eligible_pending_jobs, the scan: a failing scan returns [] (line 108)
WorkerScan ==
    /\ worker.pc = "sleep"
    /\ \E ok \in StoreOutcomes :
          LET found == IF ok THEN PendingItems(jobs) ELSE {} IN
          /\ StoreCalls(<< <<TRUE, ok>> >>)
          /\ worker' = [worker EXCEPT !.pc = IF found = {} THEN "sleep" ELSE "eval",
                                      !.scanned = found,
                                      !.eligible = <<>>]
    /\ lastCall' = NoCall
    /\ UNCHANGED <<now, files, jobs, threads, transcripts, requests, attempts>>
    /\ UNCHANGED schedVars

\* the worker's state once the scan result is exhausted (lines 69-74)
AfterFilter(eligible) ==
    [pc |-> IF eligible = <<>> THEN "sleep" ELSE "run",
     scanned |-> {}, eligible |-> eligible]

\* one iteration of the loop of get_eligible_pending_jobs (lines 100-104):
\* is_job_eligible on one scanned item, with its write
WorkerEvaluate ==
    /\ worker.pc = "eval"
    /\ \E e \in worker.scanned, ok \in StoreOutcomes :
          LET rule == is_job_eligible(e.item, now)
              rest == worker.scanned \ {e}
              elig == IF rule = "eligible" THEN Append(worker.eligible, e)
                      ELSE worker.eligible
              js   == IF rule = "max_retries"
                        THEN mark_job_failed(jobs, e.job_id, MsgMaxRetries, now, ok)
                      ELSE IF rule = "too_old"
                        THEN mark_job_failed(jobs, e.job_id, MsgTooOld, now, ok)
                      ELSE jobs
          IN  /\ StoreCalls(<< <<rule \in {"max_retries", "too_old"}, ok>> >>)
              /\ jobs' = js
              /\ worker' = IF rule = "raise" THEN WorkerIdle
                           ELSE IF rest = {} THEN AfterFilter(elig)
                           ELSE [worker EXCEPT !.scanned = rest, !.eligible = elig]
              /\ lastCall' = [op |-> "is_job_eligible", job_id |-> e.job_id,
                              item |-> e.item, at |-> now,
                              returned |-> Returned(rule),
                              before |-> jobs[e.job_id], after |-> js[e.job_id]]
    /\ UNCHANGED <<now, files, threads, transcripts, requests, attempts>>
    /\ UNCHANGED schedVars

\* variant: an error in one job ends the batch
NextJob_batch_dropped ==
    WorkerIdle

\* the worker after the job at the head of the eligible list is dealt with
NextJob ==
    [pc |-> IF Len(worker.eligible) > 1 THEN "run" ELSE "sleep",
     scanned |-> {}, eligible |-> Tail(worker.eligible)]

\* f"{file_size_mb:.1f}" of file_size / (1024 * 1024)
FormatMB(size) ==
    LET tenths == (size * 10 + 512 * 1024) \div (1024 * 1024)
    IN  ToString(tenths \div 10) \o "." \o ToString(tenths % 10)

\* SafeAudioProcessor.get_user_preferences: the preferences table is not read,
\* the answer is the same for every user
get_user_preferences(user_id) == <<[enable_transcription |-> TRUE]>>

\* variant: the size limit is not enforced
ValidationFailure_no_size_limit(job, okFile, okUser) ==
    LET audio_file == get_audio_file_by_id(job.audio_file_id[1], okFile) IN
    IF audio_file = <<>> THEN "Audio file not found"
    ELSE IF ~okUser THEN "User not found"
    ELSE IF /\ get_user_preferences(job.user_id) # <<>>
            /\ ~get_user_preferences(job.user_id)[1].enable_transcription
         THEN "User has transcription disabled"
    ELSE ""

\* process_single_job, lines 158-182: the reason to fail the job before any
\* processing, "" when there is none
ValidationFailure(job, okFile, okUser) ==
    LET audio_file == get_audio_file_by_id(job.audio_file_id[1], okFile) IN
    IF audio_file = <<>> THEN "Audio file not found"
    ELSE IF audio_file[1].file_size > MAX_FILE_SIZE_MB * 1024 * 1024
         THEN "File too large (" \o FormatMB(audio_file[1].file_size) \o "MB)"
    ELSE IF ~okUser THEN "User not found"
    ELSE IF /\ get_user_preferences(job.user_id) # <<>>
            /\ ~get_user_preferences(job.user_id)[1].enable_transcription
         THEN "User has transcription disabled"
    ELSE ""

CountAttempt(job_id) ==
    [attempts EXCEPT ![job_id] = Min(@ + 1, MaxAttemptsCounted)]

NewThread(kind, parent, file, pc) ==
    [kind |-> kind, parent |-> parent, file |-> file, pc |-> pc,
     newjob |-> 0, awaited |-> TRUE, started |-> now]

\* process_single_job up to its await (lines 143-198)
WorkerStartJob ==
    /\ worker.pc = "run"
    /\ Len(jobs) + Reserved < MaxJobs
    /\ LET e == Head(worker.eligible)
           job == e.item
       IN \E okAttempt \in StoreOutcomes, okFile \in StoreOutcomes,
             okUser \in StoreOutcomes, okFail \in StoreOutcomes :
          /\ IF job.audio_file_id = <<>>
             THEN /\ StoreCalls(<< <<FALSE, okAttempt>>, <<FALSE, okFile>>,
                                   <<FALSE, okUser>>, <<TRUE, okFail>> >>)
                  /\ jobs' = mark_job_failed(jobs, e.job_id, "No audio file ID provided", now, okFail)
                  /\ worker' = NextJob
                  /\ UNCHANGED <<threads, attempts>>
             ELSE LET js == update_job_attempt(jobs, e.job_id, job.retry_count, now, okAttempt)
                      reason == ValidationFailure(job, okFile, okUser)
                      found == get_audio_file_by_id(job.audio_file_id[1], okFile)
                      sized == /\ found # <<>>
                               /\ found[1].file_size <= MAX_FILE_SIZE_MB * 1024 * 1024
                  IN  /\ StoreCalls(<< <<TRUE, okAttempt>>, <<TRUE, okFile>>,
                                       <<sized, okUser>>, <<reason # "", okFail>> >>)
                      /\ attempts' = CountAttempt(e.job_id)
                      /\ IF reason # ""
                         THEN /\ jobs' = mark_job_failed(js, e.job_id, reason, now, okFail)
                              /\ worker' = NextJob
                              /\ UNCHANGED threads
                         ELSE /\ jobs' = js
                              /\ worker' = [worker EXCEPT !.pc = "await"]
                              /\ threads' = threads \cup
                                   {NewThread("auto", e.job_id, job.audio_file_id[1], "create")}
          /\ lastCall' = [op |-> "process_single_job", job_id |-> e.job_id,
                          item |-> job, at |-> now,
                          returned |-> "None",
                          stores |-> [attempt |-> okAttempt, file |-> okFile,
                                      user |-> okUser, failed |-> okFail],
                          before |-> jobs[e.job_id],
                          after |-> jobs'[e.job_id]]
    /\ UNCHANGED <<now, files, transcripts, requests>>
    /\ UNCHANGED schedVars

\* ------------------------------------------- threads (asyncio.to_thread)

\* a thread runs on its own; one whose awaiter's timeout is due is overtaken by it
Runs(th, pc) == th.pc = pc /\ ~TimedOut(th)

\* the thread set once th has moved on: a finished thread nobody awaits is gone
Moved(th, new) ==
    IF ~new.awaited /\ new.pc \in {"done", "raised"}
    THEN threads \ {th}
    ELSE (threads \ {th}) \cup {new}

\* process_audio_file_automatic line 261 and process_user_audio_file line 366:
\* create_processing_job, outside any try
ThreadCreateJob ==
    /\ \E th \in threads, ok \in StoreOutcomes :
          /\ Runs(th, "create")
          /\ StoreCalls(<< <<TRUE, ok>> >>)
          /\ IF ok
             THEN /\ jobs' = create_processing_job(jobs, CurrentUser, "transcription", <<th.file>>, now, FALSE)
                  /\ attempts' = Append(attempts, 0)
                  /\ threads' = Moved(th, [th EXCEPT !.pc = "mark", !.newjob = Len(jobs) + 1])
             ELSE /\ threads' = Moved(th, [th EXCEPT !.pc = "raised"])
                  /\ UNCHANGED <<jobs, attempts>>
    /\ UNCHANGED <<now, files, worker, transcripts, requests, lastCall>>
    /\ UNCHANGED schedVars

\* update_job_status(job_id, 'processing'), first statement of the try
\* (audio_processor.py line 264, transcription_service.py line 254)
ThreadMarkProcessing ==
    /\ \E th \in threads, ok \in StoreOutcomes :
          /\ Runs(th, "mark")
          /\ StoreCalls(<< <<TRUE, ok>> >>)
          /\ IF ok
             THEN /\ jobs' = update_job_status(jobs, th.newjob, "processing", "", now)
                  /\ threads' = Moved(th, [th EXCEPT !.pc = "work"])
             ELSE /\ threads' = Moved(th, [th EXCEPT !.pc = "handler"])
                  /\ UNCHANGED jobs
    /\ UNCHANGED <<now, files, worker, transcripts, requests, attempts, lastCall>>
    /\ UNCHANGED schedVars

\* what the collaborators (S3, Secrets Manager, decryption, Whisper) make of
\* one run of process_audio_for_existing_job
Outcomes == {"decrypt_failed", "short", "transcribed"}

\* the status and error_message that end the thread's own job
\* process_audio_file_automatic lines 267-281: always failed
AutoResult(audio_file) ==
    IF audio_file = <<>>
    THEN [status |-> "failed", msg |-> "Audio file not found or access denied", saved |-> FALSE]
    ELSE [status |-> "failed",
          msg |-> "Automatic decryption not yet implemented - requires manual trigger",
          saved |-> FALSE]

\* process_audio_for_existing_job lines 259-339
ManualResult(audio_file, outcome) ==
    IF audio_file = <<>>
    THEN [status |-> "failed", msg |-> "Audio file not found or access denied", saved |-> FALSE]
    ELSE IF outcome = "decrypt_failed"
    THEN [status |-> "failed", msg |-> "Failed to decrypt audio file", saved |-> FALSE]
    ELSE IF outcome = "bad_duration"
    THEN [status |-> "failed", msg |-> "Audio duration outside valid range", saved |-> FALSE]
    ELSE IF outcome = "short"
    THEN [status |-> "completed", msg |-> "", saved |-> FALSE]
    ELSE IF outcome = "transcribed"
    THEN [status |-> "completed", msg |-> "", saved |-> TRUE]
    ELSE [status |-> "failed", msg |-> "Processing error", saved |-> FALSE]

\* what transcribe_from_local returned to the run, "not called" when the run
\* ended before it (the automatic path always does, lines 280-281)
Transcribed(kind, audio_file, outcome) ==
    IF kind = "manual" /\ audio_file # <<>> /\ outcome \in {"short", "transcribed"}
    THEN outcome
    ELSE "not called"

\* the body of the try after the job is marked processing, with its last write
ThreadWork ==
    /\ \E th \in threads, okFile \in StoreOutcomes, ok \in StoreOutcomes,
          outcome \in Outcomes :
          /\ Runs(th, "work")
          /\ th.kind = "auto" => outcome = "transcribed"
          /\ StoreCalls(<< <<TRUE, okFile>>, <<TRUE, ok>> >>)
          /\ LET audio_file == get_audio_file_by_id(th.file, okFile)
                 res == IF th.kind = "auto" THEN AutoResult(audio_file)
                        ELSE ManualResult(audio_file, outcome)
             IN  /\ IF ok
                    THEN /\ jobs' = update_job_status(jobs, th.newjob, res.status, res.msg, now)
                         /\ transcripts' = IF res.saved THEN Append(transcripts, th.file)
                                           ELSE transcripts
                         /\ threads' = Moved(th, [th EXCEPT !.pc = "done"])
                    ELSE /\ threads' = Moved(th, [th EXCEPT !.pc = "handler"])
                         /\ UNCHANGED <<jobs, transcripts>>
                 /\ lastCall' = [op |-> "process_audio", kind |-> th.kind,
                                 job_id |-> th.newjob, parent |-> th.parent,
                                 file |-> th.file, at |-> now,
                                 transcript |-> Transcribed(th.kind, audio_file, outcome),
                                 written |-> ok,
                                 before |-> jobs[th.newjob], after |-> jobs'[th.newjob],
                                 saved |-> Len(transcripts') - Len(transcripts)]
    /\ UNCHANGED <<now, files, worker, requests, attempts>>
    /\ UNCHANGED schedVars

\* the except clause around the try (audio_processor.py lines 323-326,
\* transcription_service.py lines 348-352): its own write may raise
ThreadHandler ==
    /\ \E th \in threads, ok \in StoreOutcomes :
          /\ Runs(th, "handler")
          /\ StoreCalls(<< <<TRUE, ok>> >>)
          /\ IF ok
             THEN /\ jobs' = IF th.newjob = 0 THEN jobs
                             ELSE update_job_status(jobs, th.newjob, "failed",
                                                    "Job processing failed", now)
                  /\ threads' = Moved(th, [th EXCEPT !.pc = "done"])
             ELSE /\ threads' = Moved(th, [th EXCEPT !.pc = "raised"])
                  /\ UNCHANGED jobs
    /\ UNCHANGED <<now, files, worker, transcripts, requests, attempts, lastCall>>
    /\ UNCHANGED schedVars

\* ----------------------------------------------- the worker after its await

\* variant: the message does not carry the configured value
MsgTimeout_without_value == "Processing timeout"

MsgTimeout == "Processing timeout (" \o ToString(PROCESSING_TIMEOUT_MINUTES) \o " minutes)"

\* the thread the worker awaits (process_single_job line 192)
WorkerThreads == { th \in threads : th.kind = "auto" /\ th.awaited }

\* process_single_job lines 200-206: the thread returned
WorkerAwaitReturn ==
    /\ worker.pc = "await"
    /\ \E th \in WorkerThreads :
          /\ th.pc = "done"
          /\ threads' = threads \ {th}
    /\ worker' = NextJob
    /\ UNCHANGED <<now, faulty, files, jobs, transcripts, requests, attempts, lastCall>>
    /\ UNCHANGED schedVars

\* process_single_job lines 211-214 re-raise; process_pending_jobs lines 77-79
WorkerAwaitRaised ==
    /\ worker.pc = "await"
    /\ \E th \in WorkerThreads, ok \in StoreOutcomes :
          /\ th.pc = "raised"
          /\ StoreCalls(<< <<TRUE, ok>> >>)
          /\ threads' = threads \ {th}
          /\ jobs' = mark_job_failed(jobs, th.parent, "Processing error", now, ok)
          /\ lastCall' = [op |-> "process_pending_jobs", job_id |-> th.parent,
                          item |-> Head(worker.eligible).item, at |-> now,
                          raised |-> TRUE, written |-> ok,
                          before |-> jobs[th.parent], after |-> jobs'[th.parent]]
    /\ worker' = NextJob
    /\ UNCHANGED <<now, files, transcripts, requests, attempts>>
    /\ UNCHANGED schedVars

\* process_single_job lines 208-210: the thread itself keeps running
WorkerTimeout ==
    /\ worker.pc = "await"
    /\ \E th \in WorkerThreads, ok \in StoreOutcomes :
          /\ TimedOut(th)
          /\ StoreCalls(<< <<TRUE, ok>> >>)
          /\ threads' = (threads \ {th}) \cup {[th EXCEPT !.awaited = FALSE]}
          /\ jobs' = mark_job_failed(jobs, th.parent, MsgTimeout, now, ok)
    /\ worker' = NextJob
    /\ UNCHANGED <<now, files, transcripts, requests, attempts, lastCall>>
    /\ UNCHANGED schedVars

\* ------------------------------------------- the manual transcription path

\* the jobs of get_processing_jobs that the loop of transcribe_audio_file
\* (api.py lines 715-725) stops at: the file's transcription jobs in progress
LiveJobs(f) ==
    { j \in JobIds : /\ jobs[j].job_type = "transcription"
                     /\ jobs[j].audio_file_id = <<f>>
                     /\ jobs[j].status \in {"processing", "pending"} }

\* ... of which the loop meets the newest first (ScanIndexForward=False)
NewestLive(live) ==
    { j \in live : \A k \in live : jobs[k].created_at <= jobs[j].created_at }

\* POST /api/transcribe/audio-file/{file_id} (api.py lines 684-750): reuse the
\* pending job of the file or create one, then queue safe_process_transcription.
\* A request answered with an HTTP error changes nothing.
ManualRequest ==
    /\ worker.pc \in {"sleep", "await"}
    /\ requests < Len(files)
    /\ \E f \in FileIds, okJobs \in StoreOutcomes :
          LET audio_file == get_audio_file_by_id(f, TRUE)
              live == IF okJobs THEN LiveJobs(f) ELSE {}
          IN  /\ StoreCalls(<< <<TRUE, okJobs>> >>)
              /\ audio_file # <<>>
              /\ audio_file[1].file_size <= MAX_FILE_SIZE_MB * 1024 * 1024
              /\ IF live = {}
                 THEN /\ Len(jobs) + Reserved + 1 < MaxJobs
                      /\ jobs' = create_processing_job(jobs, CurrentUser, "transcription", <<f>>, now, FALSE)
                      /\ attempts' = Append(attempts, 0)
                      /\ threads' = threads \cup
                            {NewThread("manual", Len(jobs) + 1, f, "queued")}
                 ELSE /\ Len(jobs) + Reserved < MaxJobs
                      /\ \E j \in NewestLive(live) :
                            /\ jobs[j].status = "pending"
                            /\ threads' = threads \cup {NewThread("manual", j, f, "queued")}
                      /\ UNCHANGED <<jobs, attempts>>
    /\ requests' = requests + 1
    /\ UNCHANGED <<now, files, worker, transcripts, lastCall>>
    /\ UNCHANGED schedVars

ManualThreads == { th \in threads : th.kind = "manual" }

\* safe_process_transcription up to its await (api.py lines 641-657); a failing
\* first write goes to the except clause of lines 671-675
ManualStart ==
    /\ worker.pc \in {"sleep", "await"}
    /\ \E th \in ManualThreads, ok \in StoreOutcomes, okFail \in StoreOutcomes :
          /\ th.pc = "queued"
          /\ StoreCalls(<< <<TRUE, ok>>, <<~ok, okFail>> >>)
          /\ IF ok
             THEN /\ jobs' = update_job_status(jobs, th.parent, "processing", "", now)
                  /\ threads' = (threads \ {th}) \cup
                                  {[th EXCEPT !.pc = "create", !.started = now]}
             ELSE /\ jobs' = IF okFail
                             THEN update_job_status(jobs, th.parent, "failed",
                                                    "Processing error", now)
                             ELSE jobs
                  /\ threads' = threads \ {th}
    /\ UNCHANGED <<now, files, worker, transcripts, requests, attempts, lastCall>>
    /\ UNCHANGED schedVars

\* api.py lines 659-664: process_user_audio_file returned
ManualReturn ==
    /\ worker.pc \in {"sleep", "await"}
    /\ \E th \in ManualThreads :
          /\ th.awaited /\ th.pc = "done"
          /\ threads' = threads \ {th}
    /\ UNCHANGED <<now, faulty, files, jobs, worker, transcripts, requests, attempts, lastCall>>
    /\ UNCHANGED schedVars

\* api.py lines 666-670: asyncio.TimeoutError; the thread itself keeps running
ManualTimeout ==
    /\ worker.pc \in {"sleep", "await"}
    /\ \E th \in ManualThreads, ok \in StoreOutcomes :
          /\ TimedOut(th)
          /\ StoreCalls(<< <<TRUE, ok>> >>)
          /\ threads' = (threads \ {th}) \cup {[th EXCEPT !.awaited = FALSE]}
          /\ jobs' = IF ok THEN update_job_status(jobs, th.parent, "failed", MsgTimeout, now)
                     ELSE jobs
    /\ UNCHANGED <<now, files, worker, transcripts, requests, attempts, lastCall>>
    /\ UNCHANGED schedVars

\* --------------------------------------------------------- specifications

\* the processor alone, over reliable stores
NextWorker ==
    \/ Tick \/ CreateAudioFile \/ DeleteAudioFile
    \/ WorkerScan \/ WorkerEvaluate \/ WorkerStartJob
    \/ ThreadCreateJob \/ ThreadMarkProcessing \/ ThreadWork
    \/ WorkerAwaitReturn \/ WorkerTimeout

SpecWorker == Init /\ [][NextWorker]_vars

\* the processor and the manual path, over reliable stores
Next ==
    \/ NextWorker
    \/ ManualRequest \/ ManualStart \/ ManualReturn \/ ManualTimeout

Spec == Init /\ [][Next]_vars

\* the processor alone, over stores whose calls may raise
InitFaulty == InitCommon /\ InitIdleScheduler /\ now = 0 /\ faulty = MaxFaults

NextFaulty == NextWorker \/ ThreadHandler \/ WorkerAwaitRaised

SpecFaulty == InitFaulty /\ [][NextFaulty]_vars

\* the processor over a job table that already holds two pending transcription
\* jobs, so that every poll's batch has a job after the first; the second job
\* may be one created without audio_file_id (create_processing_job's default),
\* and its audio file may be over the size limit or deleted since the upload
BatchOfTwo ==
    /\ InitIdleScheduler
    /\ now = 0
    /\ \E size \in FileSizes, deleted \in BOOLEAN :
          files = <<[file_size |-> MAX_FILE_SIZE_MB * 1024 * 1024, deleted |-> FALSE],
                    [file_size |-> size, deleted |-> deleted]>>
    /\ \E second \in {<<2>>, <<>>} :
          jobs = create_processing_job(
                    create_processing_job(<<>>, CurrentUser, "transcription", <<1>>, 0, FALSE),
                    CurrentUser, "transcription", second, 0, FALSE)
    /\ attempts = <<0, 0>>
    /\ worker = WorkerIdle
    /\ threads = {}
    /\ transcripts = <<>>
    /\ requests = 0
    /\ lastCall = NoCall
    /\ tracking = {}
    /\ events = <<>>

\* ... over reliable stores
InitBatch == BatchOfTwo /\ faulty = 0

NextBatch ==
    \/ Tick \/ DeleteAudioFile
    \/ WorkerScan \/ WorkerEvaluate \/ WorkerStartJob
    \/ ThreadCreateJob \/ ThreadMarkProcessing \/ ThreadWork
    \/ WorkerAwaitReturn \/ WorkerTimeout

SpecBatch == InitBatch /\ [][NextBatch]_vars

\* ... over stores whose calls may raise, with no further deletion
InitBatchFaulty == BatchOfTwo /\ faulty = MaxFaults

NextBatchFaulty ==
    \/ Tick
    \/ WorkerScan \/ WorkerEvaluate \/ WorkerStartJob
    \/ ThreadCreateJob \/ ThreadMarkProcessing \/ ThreadWork \/ ThreadHandler
    \/ WorkerAwaitReturn \/ WorkerAwaitRaised \/ WorkerTimeout

SpecBatchFaulty == InitBatchFaulty /\ [][NextBatchFaulty]_vars

\* ------------------------------------------- is_job_eligible on its own

\* the jobs is_job_eligible is given: every retry_count up to one past the
\* limit, ages and times since the last attempt on either side of the limits
EligibleRetryCounts == 0..(MAX_RETRIES + 1)
EligibleAges ==
    {0, MAX_AGE_HOURS * 60 - 1, MAX_AGE_HOURS * 60, MAX_AGE_HOURS * 60 + 1}
EligibleElapsed ==
    {0, RETRY_BACKOFF_MINUTES - 1, RETRY_BACKOFF_MINUTES, RETRY_BACKOFF_MINUTES + 1}

\* one pending job in the table, as create_audio_file and update_job_attempt
\* leave it: last_attempt_at is there exactly when retry_count is not 0
InitEligible ==
    /\ InitIdleScheduler
    /\ now = MAX_AGE_HOURS * 60 + 1
    /\ faulty = 0
    /\ files = <<[file_size |-> MAX_FILE_SIZE_MB * 1024 * 1024, deleted |-> FALSE]>>
    /\ \E rc \in EligibleRetryCounts, age \in EligibleAges,
          elapsed \in EligibleElapsed, aware \in BOOLEAN :
          /\ elapsed <= age
          /\ rc = 0 => elapsed = 0
          /\ jobs = <<[NewJobItem(CurrentUser, "transcription", <<1>>, now - age, aware)
                         EXCEPT !.retry_count = rc,
                                !.last_attempt_at = IF rc = 0 THEN <<>>
                                                    ELSE <<now - elapsed>>]>>
          /\ attempts = <<rc>>
    /\ worker = WorkerIdle
    /\ threads = {}
    /\ transcripts = <<>>
    /\ requests = 0
    /\ lastCall = NoCall
    /\ tracking = {}
    /\ events = <<>>

\* get_eligible_pending_jobs alone
NextEligible == WorkerScan \/ WorkerEvaluate

SpecEligible == InitEligible /\ [][NextEligible]_vars

\* ---------------------------------------------- the daily summary scheduler

\* the gate of check_and_schedule_summaries, in minutes
schedule_check_interval_minutes == schedule_check_interval_seconds \div 60

\* the trigger of the delivered preferences, as a minute of the day
DefaultTriggerMinute ==
    LET parsed == ParseTime(DEFAULT_SUMMARY_TIME_LOCAL)
    IN  pref_hour_utc(parsed[1], DEFAULT_TIMEZONE_OFFSET_HOURS) * 60 + parsed[2]

\* the part of the day that is observed: the trigger window and Margin
\* minutes on either side of it
ObserveFrom == DefaultTriggerMinute - Margin
ObserveTo == DefaultTriggerMinute + TRIGGER_WINDOW_MINUTES + Margin

\* the scheduler's loop sleeps 30 seconds between calls: the first call that
\* passes the gate comes 5 minutes after the last pass, or within the minute
\* that follows
SchedTick ==
    /\ sched.pc = "sleep"
    /\ sched.last_schedule_check # <<>>
    /\ (now + 1) - sched.last_schedule_check[1] <= schedule_check_interval_minutes + 1
    /\ (now + 1) % MinutesPerDay <= ObserveTo
    /\ now' = now + 1
    /\ UNCHANGED <<faulty, files, jobs, worker, threads, transcripts, requests,
                   attempts, lastCall>>
    /\ UNCHANGED schedVars

\* check_and_schedule_summaries, lines 84-110: the gate, then the scan of the
\* users with the daily summary enabled
SchedPassBegin ==
    /\ sched.pc = "sleep"
    /\ IF sched.last_schedule_check = <<>> THEN TRUE
       ELSE now - sched.last_schedule_check[1] >= schedule_check_interval_minutes
    /\ \E ok \in StoreOutcomes :
          LET users == get_users_with_daily_summary_enabled(prefs, ok)
          IN  /\ StoreCalls(<< <<TRUE, ok>> >>)
              /\ sched' = [sched EXCEPT !.last_schedule_check = <<now>>,
                                        !.pc = IF users = {} THEN "sleep" ELSE "users",
                                        !.users = users]
    /\ events' = Append(events, [op |-> "check", at |-> now])
    /\ UNCHANGED <<now, files, jobs, worker, threads, transcripts, requests,
                   attempts, lastCall, prefs, tracking, trigger, peer>>

\* the scheduler once the user at hand is dealt with
NextUser(s, rest) ==
    [s EXCEPT !.users = rest, !.pc = IF rest = {} THEN "sleep" ELSE "users"]

\* one iteration of the loop over the users (lines 116-188); the pass works
\* with the time read at its start (line 84)
SchedPassUser ==
    /\ sched.pc = "users"
    /\ \E p \in sched.users, okCreate \in StoreOutcomes, okMark \in StoreOutcomes :
          LET t == sched.last_schedule_check[1]
              current_date == DateOf(t)
              rest == sched.users \ {p}
              parsed == ParseTime(p.summary_time_local)
              due == /\ sched.scheduled_today[p.user_id] # <<current_date>>
                     /\ parsed # <<>>
                     /\ time_match(HourOf(t), MinuteOf(t),
                                   pref_hour_utc(parsed[1], p.timezone_offset_hours),
                                   parsed[2])
          IN  /\ StoreCalls(<< <<due, okCreate>>, <<due /\ okCreate, okMark>> >>)
              /\ IF sched.scheduled_today[p.user_id] = <<current_date>>
                 THEN /\ sched' = NextUser(sched, rest)
                      /\ UNCHANGED <<jobs, attempts, tracking>>
                 ELSE IF parsed = <<>>
                 \* the handler of line 183 reads preferences.summary_time_utc,
                 \* which UserPreferences does not have: the pass ends at line 193
                 THEN /\ sched' = NextUser(sched, {})
                      /\ UNCHANGED <<jobs, attempts, tracking>>
                 ELSE IF ~due \/ ~okCreate
                 THEN /\ sched' = NextUser(sched, rest)
                      /\ UNCHANGED <<jobs, attempts, tracking>>
                 ELSE /\ Len(jobs) < MaxJobs
                      /\ jobs' = create_processing_job(jobs, p.user_id, "daily_summary",
                                                       <<>>, t, FALSE)
                      /\ attempts' = Append(attempts, 0)
                      /\ sched' = [NextUser(sched, rest) EXCEPT
                                      !.scheduled_today[p.user_id] = <<current_date>>]
                      /\ tracking' = mark_summary_scheduled(tracking, p.user_id,
                                          Len(jobs) + 1, current_date, okMark)
    /\ UNCHANGED <<now, files, worker, threads, transcripts, requests,
                   lastCall, prefs, events, trigger, peer>>

Restarts == Cardinality({ i \in DOMAIN events : events[i].op = "restart" })

\* the process is stopped and started again, at once or a day later:
\* start_scheduler lines 43-60 on a new DailySummaryScheduler
SchedRestart ==
    /\ Restarts < MaxRestarts
    /\ \E down \in {0, MinutesPerDay}, ok \in StoreOutcomes :
          /\ DateOf(now + down) < MaxDays
          /\ StoreCalls(<< <<TRUE, ok>> >>)
          /\ now' = now + down
          /\ sched' = Started(tracking, now + down, ok)
          /\ events' = Append(events, [op |-> "restart", at |-> now + down])
    /\ UNCHANGED <<files, jobs, worker, threads, transcripts, requests,
                   attempts, lastCall, prefs, tracking, trigger, peer>>

\* the scheduler is started at some minute around the trigger window, over
\* reliable stores and a preferences table of items the scan can read
InitSched ==
    /\ InitCommon
    /\ faulty = 0
    /\ now \in ObserveFrom..(DefaultTriggerMinute + TRIGGER_WINDOW_MINUTES - 1)
    /\ prefs \in [UserIds -> [enable_daily_summary : BOOLEAN]]
    /\ sched = Started({}, now, TRUE)
    /\ trigger = NoTrigger
    /\ peer = NotRunning

\* one scheduler that is never restarted
NextSched == SchedTick \/ SchedPassBegin \/ SchedPassUser

SpecSched == InitSched /\ [][NextSched]_vars

\* one scheduler, restarted now and then
NextRestart == NextSched \/ SchedRestart

SpecRestart == InitSched /\ [][NextRestart]_vars

\* ------------------------------- two scheduler processes on the same tables

\* start_scheduler (lines 43-60) in a second process
PeerStart ==
    /\ peer.pc = "off"
    /\ \E ok \in StoreOutcomes :
          /\ StoreCalls(<< <<TRUE, ok>> >>)
          /\ peer' = Started(tracking, now, ok)
    /\ UNCHANGED <<now, files, jobs, worker, threads, transcripts, requests,
                   attempts, lastCall, prefs, tracking, events, trigger, sched>>

\* check_and_schedule_summaries of the second process, lines 84-110
PeerPassBegin ==
    /\ peer.pc = "sleep"
    /\ IF peer.last_schedule_check = <<>> THEN TRUE
       ELSE now - peer.last_schedule_check[1] >= schedule_check_interval_minutes
    /\ \E ok \in StoreOutcomes :
          LET users == get_users_with_daily_summary_enabled(prefs, ok)
          IN  /\ StoreCalls(<< <<TRUE, ok>> >>)
              /\ peer' = [peer EXCEPT !.last_schedule_check = <<now>>,
                                        !.pc = IF users = {} THEN "sleep" ELSE "users",
                                        !.users = users]
    /\ events' = Append(events, [op |-> "peer_check", at |-> now])
    /\ UNCHANGED <<now, files, jobs, worker, threads, transcripts, requests,
                   attempts, lastCall, prefs, tracking, trigger, sched>>

\* one iteration of its loop over the users (lines 116-188)
PeerPassUser ==
    /\ peer.pc = "users"
    /\ \E p \in peer.users, okCreate \in StoreOutcomes, okMark \in StoreOutcomes :
          LET t == peer.last_schedule_check[1]
              current_date == DateOf(t)
              rest == peer.users \ {p}
              parsed == ParseTime(p.summary_time_local)
              due == /\ peer.scheduled_today[p.user_id] # <<current_date>>
                     /\ parsed # <<>>
                     /\ time_match(HourOf(t), MinuteOf(t),
                                   pref_hour_utc(parsed[1], p.timezone_offset_hours),
                                   parsed[2])
          IN  /\ StoreCalls(<< <<due, okCreate>>, <<due /\ okCreate, okMark>> >>)
              /\ IF peer.scheduled_today[p.user_id] = <<current_date>>
                 THEN /\ peer' = NextUser(peer, rest)
                      /\ UNCHANGED <<jobs, attempts, tracking>>
                 ELSE IF parsed = <<>>
                 \* the handler of line 183 reads preferences.summary_time_utc,
                 \* which UserPreferences does not have: the pass ends at line 193
                 THEN /\ peer' = NextUser(peer, {})
                      /\ UNCHANGED <<jobs, attempts, tracking>>
                 ELSE IF ~due \/ ~okCreate
                 THEN /\ peer' = NextUser(peer, rest)
                      /\ UNCHANGED <<jobs, attempts, tracking>>
                 ELSE /\ Len(jobs) < MaxJobs
                      /\ jobs' = create_processing_job(jobs, p.user_id, "daily_summary",
                                                       <<>>, t, FALSE)
                      /\ attempts' = Append(attempts, 0)
                      /\ peer' = [NextUser(peer, rest) EXCEPT
                                      !.scheduled_today[p.user_id] = <<current_date>>]
                      /\ tracking' = mark_summary_scheduled(tracking, p.user_id,
                                          Len(jobs) + 1, current_date, okMark)
    /\ UNCHANGED <<now, files, worker, threads, transcripts, requests,
                   lastCall, prefs, events, trigger, sched>>

\* a minute passes while both loops sleep; neither process lets more than
\* 5 minutes and the following one go by without a pass
PairTick ==
    /\ sched.pc = "sleep" /\ sched.last_schedule_check # <<>>
    /\ (now + 1) - sched.last_schedule_check[1] <= schedule_check_interval_minutes + 1
    /\ IF peer.pc = "off" THEN TRUE
       ELSE /\ peer.pc = "sleep" /\ peer.last_schedule_check # <<>>
            /\ (now + 1) - peer.last_schedule_check[1] <= schedule_check_interval_minutes + 1
    /\ (now + 1) % MinutesPerDay <= ObserveTo
    /\ now' = now + 1
    /\ UNCHANGED <<faulty, files, jobs, worker, threads, transcripts, requests,
                   attempts, lastCall>>
    /\ UNCHANGED schedVars

NextPair ==
    \/ PairTick \/ SchedPassBegin \/ SchedPassUser
    \/ PeerStart \/ PeerPassBegin \/ PeerPassUser

SpecPair == InitSched /\ [][NextPair]_vars

\* ------------------------------------------------ the trigger computation

\* the preferred local times, UTC offsets and current UTC times evaluated
LocalHours == {0, 9, 23}
LocalMinutes == {0, 30, 56, 59}
UtcOffsets == {-12, -6, -1, 0, 5, 14}
UtcHours == 0..23
UtcMinutes == 0..59

TriggerInputs ==
    { [hh |-> hh, mm |-> mm,
       summary_time_local |-> TimeText(hh, mm),
       timezone_offset_hours |-> off,
       current_hour |-> h, current_minute |-> m,
       out |-> <<>>] :
      hh \in LocalHours, mm \in LocalMinutes, off \in UtcOffsets,
      h \in UtcHours, m \in UtcMinutes }

\* check_and_schedule_summaries lines 129-146 for one user at one time
TriggerEvaluate ==
    /\ trigger \in TriggerInputs
    /\ LET parsed == ParseTime(trigger.summary_time_local)
           hour_utc == pref_hour_utc(parsed[1], trigger.timezone_offset_hours)
       IN  trigger' =
             [trigger EXCEPT !.out =
                IF parsed = <<>> THEN <<[raised |-> "ValueError"]>>
                ELSE <<[pref_hour_utc |-> hour_utc,
                        pref_minute |-> parsed[2],
                        time_match |-> time_match(trigger.current_hour,
                                                   trigger.current_minute,
                                                   hour_utc, parsed[2])]>>]
    /\ UNCHANGED <<now, faulty, files, jobs, worker, threads, transcripts, requests,
                   attempts, lastCall, prefs, sched, tracking, events, peer>>

InitTrigger ==
    /\ InitCommon
    /\ now = 0
    /\ faulty = 0
    /\ prefs = NoPreferences
    /\ sched = Started({}, 0, TRUE)
    /\ trigger \in TriggerInputs
    /\ peer = NotRunning

NextTrigger == TriggerEvaluate

SpecTrigger == InitTrigger /\ [][NextTrigger]_vars

\* ----------------------------------------------------------------- claims

\* the worker's last call was is_job_eligible
Evaluated == lastCall.op = "is_job_eligible"

\* the age, at that call, of the job it was given
EvaluatedAge == lastCall.at - lastCall.item.created_at

\* C1: a pending job whose retry_count is at least MAX_RETRIES (3) is refused
\* by is_job_eligible, which leaves it failed with the message
\* 'Exceeded maximum retries (3)'; such a job is never in the eligible list.
C1_MaxRetriesRefused ==
    /\ (Evaluated /\ lastCall.item.retry_count >= 3) =>
            /\ lastCall.returned = "False"
            /\ lastCall.after.status = "failed"
            /\ lastCall.after.error_message = "Exceeded maximum retries (3)"
    /\ \A i \in DOMAIN worker.eligible : worker.eligible[i].item.retry_count < 3

\* C1 witness: is_job_eligible was called on a job attempted three times and
\* the job is now failed
C1_Witness ==
    /\ Evaluated
    /\ lastCall.item.retry_count >= 3
    /\ lastCall.before.status = "pending"
    /\ lastCall.after.status = "failed"

\* C2: a pending job created more than 24 hours ago is refused by
\* is_job_eligible whatever its retry_count, and is left failed with a message
\* that says it is too old.
C2_TooOldRefused ==
    (Evaluated /\ EvaluatedAge > 24 * 60) =>
        /\ lastCall.returned = "False"
        /\ lastCall.after.status = "failed"
        /\ lastCall.after.error_message \in {"Job expired - too old"}

\* C3: a job attempted at least once and fewer than MAX_RETRIES times, at most
\* 24 hours old, whose last attempt is less than 10 minutes back, is refused
\* by is_job_eligible and nothing is written to it.
C3_BackoffRefused ==
    (/\ Evaluated
     /\ lastCall.item.retry_count > 0
     /\ lastCall.item.retry_count < 3
     /\ EvaluatedAge <= 24 * 60
     /\ lastCall.item.last_attempt_at # <<>>
     /\ lastCall.at - lastCall.item.last_attempt_at[1] < 10) =>
        /\ lastCall.returned = "False"
        /\ lastCall.after = lastCall.before

\* C3 witness: is_job_eligible was called on a once-attempted, fresh job
\* within 10 minutes of its last attempt, and refused it
C3_Witness ==
    /\ Evaluated
    /\ lastCall.item.retry_count \in {1, 2}
    /\ EvaluatedAge <= 24 * 60
    /\ lastCall.item.last_attempt_at # <<>>
    /\ lastCall.at - lastCall.item.last_attempt_at[1] < 10
    /\ lastCall.returned = "False"
    /\ lastCall.after.status = "pending"

Terminal == {"failed", "completed"}

\* C4: once a job is failed or completed no attempt is made on it, and
\* is_job_eligible refuses it whatever its retry_count, created_at and
\* last_attempt_at are.
C4_TerminalNeverAttempted ==
    /\ \A j \in JobIds :
            jobs[j].status \in Terminal =>
                Returned(is_job_eligible(jobs[j], now)) = "False"
    /\ lastCall.op = "process_single_job" => lastCall.before.status \notin Terminal

\* C5: retry_count never decreases; a step is an attempt of the worker on a
\* job exactly when it adds 1 to the job's retry_count and stamps
\* last_attempt_at with the current time, so that no attempt goes unrecorded.
C5_AttemptsCounted ==
    [][\A j \in JobIds :
          /\ jobs'[j].retry_count >= jobs[j].retry_count
          /\ (attempts'[j] # attempts[j]) <=>
                 (jobs'[j].retry_count = jobs[j].retry_count + 1)
          /\ (attempts'[j] # attempts[j]) => jobs'[j].last_attempt_at = <<now>>]_vars

\* C6: no job is attempted more than MAX_RETRIES (3) times, also when writes
\* to the job store fail now and then.
C6_AttemptsBounded == \A j \in JobIds : attempts[j] <= 3

\* C7: a job's status only moves forward: a failed or completed job keeps its
\* status, and a job that has left pending does not return to it, whatever
\* the interleaving of the worker loop and the manual transcription path.
C7_StatusMovesForward ==
    [][\A j \in JobIds :
          /\ jobs[j].status \in Terminal => jobs'[j].status = jobs[j].status
          /\ jobs[j].status # "pending" => jobs'[j].status # "pending"]_vars

\* the daily_summary jobs of a user created on a UTC date
SummaryJobs(u, d) ==
    { j \in JobIds : /\ jobs[j].job_type = "daily_summary"
                     /\ jobs[j].user_id = u
                     /\ DateOf(jobs[j].created_at) = d }

\* the tracking records of a user for a UTC date
TrackingRecords(u, d) == { it \in tracking : it.user_id = u /\ it.date = d }

Dates == 0..(MaxDays - 1)

\* the trigger window of the preferences the scheduler is given: 09:00 UTC
InTriggerWindow(t) == HourOf(t) = 9 /\ MinuteOf(t) >= 0 /\ MinuteOf(t) < 5

\* the positions in the history of the evaluation passes that fell inside the
\* trigger window on date d
WindowPasses(d) ==
    { i \in DOMAIN events : /\ events[i].op = "check"
                            /\ DateOf(events[i].at) = d
                            /\ InTriggerWindow(events[i].at) }

\* no pass is still on its way to user u
Handled(u) == \A p \in sched.users : p.user_id # u

\* C8: one scheduler, never restarted: however many evaluation passes fall on
\* a UTC day, a user has at most one daily_summary job and at most one
\* tracking record for that day, and exactly one of each, the record naming
\* the job, once a pass inside the user's trigger window has dealt with the user.
C8_OneSummaryPerDay ==
    \A u \in UserIds, d \in Dates :
        /\ Cardinality(SummaryJobs(u, d)) <= 1
        /\ Cardinality(TrackingRecords(u, d)) <= 1
        /\ (prefs[u].enable_daily_summary /\ WindowPasses(d) # {} /\ Handled(u)) =>
                /\ Cardinality(SummaryJobs(u, d)) = 1
                /\ Cardinality(TrackingRecords(u, d)) = 1
                /\ \A it \in TrackingRecords(u, d) : it.job_id \in SummaryJobs(u, d)

\* C8 witness: three passes on one day, one of them inside the trigger window,
\* have left a user with a job and a tracking record
C8_Witness ==
    \E u \in UserIds, d \in Dates :
        /\ sched.pc = "sleep"
        /\ Cardinality({ i \in DOMAIN events : DateOf(events[i].at) = d }) >= 3
        /\ WindowPasses(d) # {}
        /\ Cardinality(SummaryJobs(u, d)) = 1
        /\ Cardinality(TrackingRecords(u, d)) = 1

C10_TriggerWindow ==
    trigger.out # <<>> =>
        LET o == trigger.out[1]
            H == trigger.current_hour
            M == trigger.current_minute
        IN  /\ o.pref_hour_utc \in 0..23
            /\ \E k \in -1..1 :
                  o.pref_hour_utc = trigger.hh - trigger.timezone_offset_hours + 24 * k
            /\ o.pref_minute = trigger.mm
            /\ o.time_match <=>
                  (H = o.pref_hour_utc /\ trigger.mm <= M /\ M < trigger.mm + 5)
            /\ (trigger.hh = 9 /\ trigger.mm = 0 /\ trigger.timezone_offset_hours = -6) =>
                  /\ o.pref_hour_utc = 15 /\ o.pref_minute = 0
                  /\ (H = 15 /\ M = 2) => o.time_match
                  /\ (H = 15 /\ M = 6) => ~o.time_match
                  /\ (H = 14 /\ M = 59) => ~o.time_match

\* C10 witness: 09:00 at offset -6 was evaluated at 15:02 UTC and found due
C10_Witness ==
    /\ trigger.out # <<>>
    /\ trigger.summary_time_local = <<"0", "9", ":", "0", "0">>
    /\ trigger.timezone_offset_hours = -6
    /\ trigger.current_hour = 15 /\ trigger.current_minute = 2
    /\ trigger.out[1].time_match

\* ---------------------------------------------------------------- C11

\* a run of the transcription pipeline that got a transcript of fewer than 10
\* characters (or none) from the transcription collaborator has just ended
ShortAttemptEnded ==
    /\ lastCall.op = "process_audio"
    /\ lastCall.transcript = "short"
    /\ lastCall.written

\* C11: when the transcription collaborator returns an empty or too short
\* transcript, the job the attempt ran on ends with status completed, no
\* transcript record is saved by the attempt, and the job carries no
\* error_message.
C11_ShortTranscriptCompleted ==
    ShortAttemptEnded =>
        /\ lastCall.after.status = "completed"
        /\ lastCall.saved = 0
        /\ lastCall.after.error_message = ""

\* ---------------------------------------------------------------- C12

\* the attempt of process_single_job raised into process_pending_jobs
AttemptRaised ==
    /\ lastCall.op = "process_pending_jobs"
    /\ lastCall.raised

\* C12: when the worker's attempt raises an unclassified exception the job is
\* not marked failed: it stays pending, available for a retry after the
\* backoff.
C12_TransientErrorRetried ==
    AttemptRaised =>
        /\ lastCall.after.status = "pending"
        /\ lastCall.after.error_message = lastCall.before.error_message

\* ---------------------------------------------------------------- C13

\* C13: whatever an attempt meets (a validation failure, a timeout, an
\* exception, a failing write of the job store), the worker goes on with the
\* rest of its batch and sleeps until its next poll when the batch is
\* exhausted; a failing scan gives an empty batch and leaves the worker
\* sleeping until the next poll.
C13_ErrorsStayInLoop ==
    [][ /\ (worker.pc \in {"run", "await"} /\ worker' # worker) =>
              \/ worker.pc = "run" /\ worker' = [worker EXCEPT !.pc = "await"]
              \/ /\ worker'.eligible = Tail(worker.eligible)
                 /\ worker'.scanned = {}
                 /\ worker'.pc = IF worker'.eligible = <<>> THEN "sleep" ELSE "run"
        /\ (worker.pc = "sleep" /\ lastCall' = NoCall /\ faulty' < faulty) =>
              /\ worker'.pc = "sleep"
              /\ worker'.eligible = <<>>
      ]_vars

\* C13 witness: an attempt raised, the write that marks its job failed raised
\* as well, and the worker is at the next job of the same batch
C13_Witness ==
    /\ AttemptRaised
    /\ ~lastCall.written
    /\ worker.pc = "run"
    /\ worker.eligible # <<>>

\* ---------------------------------------------------------------- C14

\* C14: with two scheduler processes running their passes against the same
\* job table and tracking table, no two daily_summary jobs are created for the
\* same user on the same UTC date, however their steps interleave.
C14_OneSummaryAcrossSchedulers ==
    \A u \in UserIds, d \in Dates :
        \A j \in SummaryJobs(u, d), k \in SummaryJobs(u, d) : j = k

\* ---------------------------------------------------------------- C15

\* process_single_job has just run on a job that the scan had read as pending
\* and that was stored as processing by the time the worker reached it
StartedOnClaimedJob ==
    /\ lastCall.op = "process_single_job"
    /\ lastCall.item.status = "pending"
    /\ lastCall.before.status = "processing"

\* C15: when the manual transcription path has set a job of the worker's batch
\* to processing before the worker reaches it, the worker starts no attempt on
\* it: the stored job keeps its retry_count, last_attempt_at and status.
C15_ClaimedJobLeftAlone ==
    StartedOnClaimedJob => lastCall.after = lastCall.before

\* ---------------------------------------------------------------- C16

\* C16: is_job_eligible follows the four rules, the first that applies
\* deciding: (1) retry_count >= 3: refused, the job failed with 'Exceeded
\* maximum retries (3)'; (2) older than 24 hours: refused, the job failed with
\* 'Job expired - too old'; (3) attempted before and less than 10 minutes
\* since the last attempt: refused, nothing written; (4) otherwise eligible,
\* nothing written. Exactly 24 hours and exactly 10 minutes are eligible.
C16_DecisionTable ==
    Evaluated =>
        LET rc == lastCall.item.retry_count
            elapsed == lastCall.at - lastCall.item.last_attempt_at[1]
        IN  IF rc >= 3
            THEN /\ lastCall.returned = "False"
                 /\ lastCall.after.status = "failed"
                 /\ lastCall.after.error_message = "Exceeded maximum retries (3)"
            ELSE IF EvaluatedAge > 24 * 60
            THEN /\ lastCall.returned = "False"
                 /\ lastCall.after.status = "failed"
                 /\ lastCall.after.error_message = "Job expired - too old"
            ELSE IF rc > 0 /\ elapsed < 10
            THEN /\ lastCall.returned = "False"
                 /\ lastCall.after = lastCall.before
            ELSE /\ lastCall.returned = "True"
                 /\ lastCall.after = lastCall.before

\* ---------------------------------------------------------------- C17

\* the run the worker awaits has returned and the worker takes its result
\* (process_single_job lines 200-206); th is the thread that ran it
AttemptReturns(th) ==
    /\ worker.pc = "await"
    /\ th \in WorkerThreads
    /\ th.pc = "done"
    /\ th \notin threads'

\* C17: when the worker's attempt on a pending transcription job runs through
\* without an error (the audio file is there, within the size limit, the stores
\* answer), the job the worker picked ends with status completed and a
\* transcript is stored for its audio file.
C17_PickedJobCompleted ==
    [][ \A th \in threads :
            (AttemptReturns(th) /\ ~files[th.file].deleted) =>
                /\ jobs'[th.parent].status = "completed"
                /\ \E i \in DOMAIN transcripts' : transcripts'[i] = th.file
      ]_vars

\* ---------------------------------------------------------------- C18

\* C18: the background processor works on the job records that exist and
\* creates none: in every step other than an upload the job table keeps its
\* job_ids, and each job keeps its user_id, job_type, audio_file_id and
\* created_at.
C18_WorkerCreatesNoJob ==
    [][ Len(files') = Len(files) =>
            /\ Len(jobs') = Len(jobs)
            /\ \A j \in JobIds :
                  /\ jobs'[j].user_id = jobs[j].user_id
                  /\ jobs'[j].job_type = jobs[j].job_type
                  /\ jobs'[j].audio_file_id = jobs[j].audio_file_id
                  /\ jobs'[j].created_at = jobs[j].created_at
      ]_vars

\* ---------------------------------------------------------------- C19

\* the jobs the worker has failed for exceeding the timeout
TimedOutJobs ==
    { j \in JobIds : jobs[j].error_message = "Processing timeout (5 minutes)" }

\* C19: when the run the worker awaits exceeds PROCESSING_TIMEOUT_MINUTES, the
\* job is set to failed with 'Processing timeout (5 minutes)', the worker goes
\* on with the rest of its batch, and no attempt is started on that job again.
C19_TimeoutFailsJob ==
    [][ /\ \A th \in threads :
              (/\ worker.pc = "await" /\ th \in WorkerThreads /\ TimedOut(th)
               /\ worker' # worker) =>
                  /\ jobs'[th.parent].status = "failed"
                  /\ jobs'[th.parent].error_message = "Processing timeout (5 minutes)"
                  /\ jobs'[th.parent].completed_at = <<now>>
                  /\ worker'.eligible = Tail(worker.eligible)
                  /\ worker'.pc = IF worker'.eligible = <<>> THEN "sleep" ELSE "run"
        /\ \A j \in TimedOutJobs :
              /\ jobs'[j].retry_count = jobs[j].retry_count
              /\ jobs'[j].last_attempt_at = jobs[j].last_attempt_at
              /\ attempts'[j] = attempts[j]
      ]_vars

\* C19 witness: the first job of a batch timed out and is failed, and the
\* worker has since started its attempt on the second job of the batch
C19_Witness ==
    \E j \in TimedOutJobs, k \in JobIds :
        /\ j # k
        /\ jobs[j].status = "failed"
        /\ attempts[j] = 1
        /\ lastCall.op = "process_single_job"
        /\ lastCall.job_id = k
        /\ lastCall.at >= jobs[j].completed_at[1]
        /\ attempts[k] = 1

\* ---------------------------------------------------------------- C20

\* the permanent validation failure that applies to a call c of
\* process_single_job, given what its reads of the stores returned; "" if none
PermanentFailure(c) ==
    IF c.item.audio_file_id = <<>> THEN "No audio file ID provided"
    ELSE IF ~c.stores.file \/ files[c.item.audio_file_id[1]].deleted
         THEN "Audio file not found"
    ELSE IF files[c.item.audio_file_id[1]].file_size > 5 * 1024 * 1024
         THEN "File too large (5.0MB)"
    ELSE IF ~c.stores.user THEN "User not found"
    ELSE ""

PermanentFailures ==
    {"No audio file ID provided", "Audio file not found",
     "File too large (5.0MB)", "User not found"}

\* C20: when the job has no audio_file_id, its audio file is not found or is
\* larger than 5 MB, or its user is not found, process_single_job fails the
\* job at once with that reason (the write being accepted), starts no run of
\* the processing pipeline, and the worker makes no further attempt on the job.
C20_ValidationFailsJob ==
    [][ /\ (lastCall' # lastCall /\ lastCall'.op = "process_single_job") =>
              LET c == lastCall'
                  reason == PermanentFailure(c)
              IN  IF reason # ""
                  THEN /\ threads' = threads
                       /\ worker'.pc # "await"
                       /\ transcripts' = transcripts
                       /\ c.stores.failed =>
                             /\ c.after.status = "failed"
                             /\ c.after.error_message = reason
                             /\ c.after.completed_at = <<now>>
                  ELSE /\ worker'.pc = "await"
                       /\ c.after.status = c.before.status
        /\ \A j \in JobIds :
              (jobs[j].status = "failed" /\ jobs[j].error_message \in PermanentFailures) =>
                  /\ attempts'[j] = attempts[j]
                  /\ jobs'[j].retry_count = jobs[j].retry_count
                  /\ jobs'[j].status = "failed"
      ]_vars

\* C20 witness: the two jobs of a batch were failed in one poll, one for its
\* missing audio_file_id and one for its user not being found, no run of the
\* pipeline was started, and the worker has polled again since
C20_Witness ==
    \E j \in JobIds, k \in JobIds :
        /\ jobs[j].status = "failed" /\ jobs[j].error_message = "User not found"
        /\ jobs[k].status = "failed" /\ jobs[k].error_message = "No audio file ID provided"
        /\ attempts[j] = 1 /\ attempts[k] = 0
        /\ Len(jobs) = 2
        /\ worker.pc = "sleep" /\ lastCall = NoCall

\* ------------------------------------- the stored transcription preference

\* the items of panzoto-user-preferences with their enable_transcription flag,
\* as written when the user switched automatic transcription on or off
StoredPreferences ==
    [UserIds -> [enable_daily_summary : {FALSE}, enable_transcription : BOOLEAN]]

\* the processor alone, over reliable stores, for users with stored preferences
InitPreferences ==
    /\ InitCommon
    /\ prefs \in StoredPreferences
    /\ sched = Started({}, 0, TRUE)
    /\ trigger = NoTrigger
    /\ peer = NotRunning
    /\ now = 0
    /\ faulty = 0

SpecPreferences == InitPreferences /\ [][NextWorker]_vars

\* C21: when the stored preference of the job's user has transcription
\* disabled, an attempt that passed the file and user checks leaves the job
\* failed with 'User has transcription disabled' and starts no processing.
C21_DisabledUserFailed ==
    [][ (/\ worker.pc = "run"
         /\ worker' # worker
         /\ Head(worker.eligible).item.audio_file_id # <<>>
         /\ LET audio_file ==
                  get_audio_file_by_id(Head(worker.eligible).item.audio_file_id[1], TRUE)
            IN  /\ audio_file # <<>>
                /\ audio_file[1].file_size <= MAX_FILE_SIZE_MB * 1024 * 1024
         /\ ~prefs[Head(worker.eligible).item.user_id].enable_transcription)
        => /\ jobs'[Head(worker.eligible).job_id].status = "failed"
           /\ jobs'[Head(worker.eligible).job_id].error_message
                 = "User has transcription disabled"
           /\ threads' = threads ]_vars

\* ---------------------------------------------------------------- C22

\* C22: the UTC minutes of a day at which time_match is true are the 5
\* consecutive minutes that start at the trigger minute, counted round the
\* clock: a trigger at minute 56..59 is also due in the first minutes of the
\* following hour.
C22_WindowOfFiveMinutes ==
    trigger.out # <<>> =>
        LET o == trigger.out[1]
            at == trigger.current_hour * 60 + trigger.current_minute
            from == o.pref_hour_utc * 60 + o.pref_minute
        IN  o.time_match <=> ((at - from) % MinutesPerDay < TRIGGER_WINDOW_MINUTES)

\* ------------------------------------------- the tracking service on its own

\* update_item under the key (user_id, date): the attributes of the update
\* expression are set on the item, which is created when it does not exist
\* (job_id 0: the attribute is absent); a failing write is logged and dropped
SetTrackingStatus(tr, user_id, date, status, ok) ==
    IF ~ok THEN tr
    ELSE IF \E it \in tr : it.user_id = user_id /\ it.date = date
    THEN { IF it.user_id = user_id /\ it.date = date
           THEN [it EXCEPT !.status = status] ELSE it : it \in tr }
    ELSE tr \cup {[user_id |-> user_id, date |-> date, job_id |-> 0, status |-> status]}

\* DailySummaryTrackingService.mark_summary_completed
mark_summary_completed(tr, user_id, date, ok) ==
    SetTrackingStatus(tr, user_id, date, "completed", ok)

\* DailySummaryTrackingService.mark_summary_failed
mark_summary_failed(tr, user_id, date, ok) ==
    SetTrackingStatus(tr, user_id, date, "failed", ok)

\* a caller records today's summary of a user as scheduled
TrackScheduled ==
    /\ \E u \in UserIds, ok \in StoreOutcomes :
          /\ StoreCalls(<< <<TRUE, ok>> >>)
          /\ tracking' = mark_summary_scheduled(tracking, u, 1, DateOf(now), ok)
    /\ UNCHANGED <<now, files, jobs, worker, threads, transcripts, requests, attempts,
                   lastCall, prefs, sched, events, trigger, peer>>

\* ... as completed or as failed
TrackResolved ==
    /\ \E u \in UserIds, ok \in StoreOutcomes, sent \in BOOLEAN :
          /\ StoreCalls(<< <<TRUE, ok>> >>)
          /\ tracking' = IF sent THEN mark_summary_completed(tracking, u, DateOf(now), ok)
                         ELSE mark_summary_failed(tracking, u, DateOf(now), ok)
    /\ UNCHANGED <<now, files, jobs, worker, threads, transcripts, requests, attempts,
                   lastCall, prefs, sched, events, trigger, peer>>

\* start_scheduler lines 43-60: the scheduler process is started and loads
\* today's records
TrackLoad ==
    /\ \E ok \in StoreOutcomes :
          /\ StoreCalls(<< <<TRUE, ok>> >>)
          /\ sched' = Started(tracking, now, ok)
          /\ lastCall' = [op |-> "reset_daily_tracking", date |-> DateOf(now),
                          table |-> tracking, read |-> ok,
                          returned |-> reset_daily_tracking(tracking, DateOf(now), ok)]
    /\ UNCHANGED <<now, files, jobs, worker, threads, transcripts, requests, attempts,
                   prefs, tracking, events, trigger, peer>>

\* the next UTC day begins
TrackNextDay ==
    /\ DateOf(now + MinutesPerDay) < MaxDays
    /\ now' = now + MinutesPerDay
    /\ UNCHANGED <<faulty, files, jobs, worker, threads, transcripts, requests, attempts,
                   lastCall>>
    /\ UNCHANGED schedVars

InitTracking == InitCommon /\ InitIdleScheduler /\ now = 0 /\ faulty = 0

NextTracking == TrackScheduled \/ TrackResolved \/ TrackLoad \/ TrackNextDay

SpecTracking == InitTracking /\ [][NextTracking]_vars

\* ---------------------------------------------------------------- C23

\* C23: reset_daily_tracking returns every user that has a tracking record of
\* the given date, whatever the record's status (scheduled, completed, failed).
C23_LoadsEveryRecordOfToday ==
    (lastCall.op = "reset_daily_tracking" /\ lastCall.read) =>
        \A u \in UserIds :
            (\E it \in lastCall.table : it.user_id = u /\ it.date = lastCall.date)
                => lastCall.returned[u] = <<lastCall.date>>

\* ------------------------------------------------------- fair executions

\* The event loop resumes every coroutine that is ready (the worker's loop
\* after its sleep or await, a queued background task, an expired wait_for),
\* a thread of asyncio.to_thread runs to its end, and time passes.  Uploads,
\* deletions and manual requests are the clients' and may stop.
WorkerFairness ==
    /\ WF_vars(Tick)
    /\ WF_vars(WorkerScan) /\ WF_vars(WorkerEvaluate) /\ WF_vars(WorkerStartJob)
    /\ WF_vars(ThreadCreateJob) /\ WF_vars(ThreadMarkProcessing) /\ WF_vars(ThreadWork)
    /\ WF_vars(WorkerAwaitReturn) /\ WF_vars(WorkerTimeout)

ManualFairness ==
    WF_vars(ManualStart) /\ WF_vars(ManualReturn) /\ WF_vars(ManualTimeout)

\* the processor and the manual path, over reliable stores, running on
SpecFair == Init /\ [][Next]_vars /\ WorkerFairness /\ ManualFairness

\* ---------------------------------------------------------------- C24

\* the status of job j, "none" while the table has no such job
StatusOf(j) == IF j \in JobIds THEN jobs[j].status ELSE "none"

\* C24: every job whose status becomes processing eventually reaches
\* completed or failed, whether the worker loop or the manual transcription
\* path started it.
C24_ProcessingEnds ==
    \A j \in 1..MaxJobs :
        (StatusOf(j) = "processing") ~> (StatusOf(j) \in {"completed", "failed"})

\* ------------------------- the scheduler and the worker in one process

\* startup_event starts both loops; with no upload the worker's polls are
\* its scans, and the scheduler's steps are those of SpecSched
NextSystem == NextSched \/ WorkerScan

\* both loops run on: asyncio resumes each after its sleep
SystemFairness ==
    /\ WF_vars(SchedTick) /\ WF_vars(SchedPassBegin) /\ WF_vars(SchedPassUser)
    /\ WF_vars(WorkerScan)

SpecSystemFair == InitSched /\ [][NextSystem]_vars /\ SystemFairness

\* ---------------------------------------------------------------- C25

\* user u's tracking record of date d has one of the given statuses
RecordStatusIn(u, d, statuses) ==
    \E it \in TrackingRecords(u, d) : it.status \in statuses

\* ... and the job it names has one of the given statuses
RecordJobStatusIn(u, d, statuses) ==
    \E it \in TrackingRecords(u, d) :
        it.job_id \in JobIds /\ jobs[it.job_id].status \in statuses

\* C25: a tracking record created with status scheduled does not stay so: the
\* daily_summary job it names is eventually completed or failed and the
\* record's status is then completed or failed.
C25_ScheduledRecordResolved ==
    \A u \in UserIds, d \in Dates :
        RecordStatusIn(u, d, {"scheduled"})
            ~> (/\ RecordJobStatusIn(u, d, {"completed", "failed"})
                /\ RecordStatusIn(u, d, {"completed", "failed"}))

\* ------------------------------- stored summary times and UTC offsets

\* what the users have stored as summary_time_local and timezone_offset_hours
StoredTimes == {TimeText(9, 0), TimeText(9, 2), TimeText(10, 0)}
StoredOffsets == {0, -6}

\* the scheduler of InitSched over a preferences table whose items carry the
\* users' own local time and offset
InitStored ==
    /\ InitCommon
    /\ faulty = 0
    /\ now \in ObserveFrom..(DefaultTriggerMinute + TRIGGER_WINDOW_MINUTES - 1)
    /\ prefs \in [UserIds -> [enable_daily_summary : BOOLEAN,
                              summary_time_local : StoredTimes,
                              timezone_offset_hours : StoredOffsets]]
    /\ sched = Started({}, now, TRUE)
    /\ trigger = NoTrigger
    /\ peer = NotRunning

SpecStored == InitStored /\ [][NextSched]_vars

\* ---------------------------------------------------------------- C26

\* the stored trigger of user u, as a minute of the UTC day
StoredTriggerMinute(u) ==
    LET parsed == ParseTime(prefs[u].summary_time_local)
    IN  ((parsed[1] - prefs[u].timezone_offset_hours) % 24) * 60 + parsed[2]

\* C26: a user's daily_summary job is created in the 5 minutes that start at
\* the UTC time of the user's own stored summary_time_local and
\* timezone_offset_hours, so users whose stored values differ are due at
\* different UTC times.
C26_TriggerFromStoredPreferences ==
    \A j \in JobIds :
        jobs[j].job_type = "daily_summary" =>
            LET at == jobs[j].created_at % MinutesPerDay
                from == StoredTriggerMinute(jobs[j].user_id)
            IN  at >= from /\ at < from + TRIGGER_WINDOW_MINUTES

\* --------------------- one scheduler over whole days, passes 5 minutes apart

\* the local times and offsets user u1 may have stored
DailyTimes == {TimeText(9, 0), TimeText(9, 56), TimeText(23, 59)}
DailyOffsets == {-6, 0, 14}

\* the scheduler is started in the first minutes of day 0 (any phase of its
\* 5-minute period)
InitDaily ==
    /\ InitCommon
    /\ faulty = 0
    /\ now \in 0..(schedule_check_interval_minutes - 1)
    /\ \E e1 \in BOOLEAN, e2 \in BOOLEAN, lt \in DailyTimes, off \in DailyOffsets :
          prefs = [u \in UserIds |->
                     [enable_daily_summary |-> IF u = CurrentUser THEN e1 ELSE e2,
                      summary_time_local |-> IF u = CurrentUser THEN lt
                                             ELSE DEFAULT_SUMMARY_TIME_LOCAL,
                      timezone_offset_hours |-> IF u = CurrentUser THEN off
                                                ELSE DEFAULT_TIMEZONE_OFFSET_HOURS]]
    /\ sched = Started({}, now, TRUE)
    /\ trigger = NoTrigger
    /\ peer = NotRunning

\* the loop's sleeps (line 64) add up to the gate's interval (lines 87-90): the
\* next pass comes exactly schedule_check_interval_seconds after the last
SchedSleepExact ==
    /\ sched.pc = "sleep"
    /\ sched.last_schedule_check # <<>>
    /\ now = sched.last_schedule_check[1]
    /\ now + schedule_check_interval_minutes < MaxDays * MinutesPerDay
    /\ now' = now + schedule_check_interval_minutes
    /\ UNCHANGED <<faulty, files, jobs, worker, threads, transcripts, requests,
                   attempts, lastCall>>
    /\ UNCHANGED schedVars

NextDaily == SchedSleepExact \/ SchedPassBegin \/ SchedPassUser

SpecDaily == InitDaily /\ [][NextDaily]_vars

\* ---------------------------------------------------------------- C27

\* the scheduler's pass at time t is over
PassOver(t) ==
    /\ sched.pc = "sleep"
    /\ sched.last_schedule_check # <<>>
    /\ sched.last_schedule_check[1] >= t

\* C27: one scheduler running from the start of day 0, passes exactly 5 minutes
\* apart at any phase, reliable stores: a user with the daily summary enabled
\* never has two daily_summary jobs of one UTC day, and has exactly one once
\* the passes of the day have reached 09:05 UTC, whatever local time and offset
\* the user has stored.
C27_OneSummaryEveryDay ==
    \A u \in UserIds, d \in Dates :
        /\ Cardinality(SummaryJobs(u, d)) <= 1
        /\ (/\ prefs[u].enable_daily_summary
            /\ PassOver(d * MinutesPerDay + DefaultTriggerMinute + TRIGGER_WINDOW_MINUTES))
           => Cardinality(SummaryJobs(u, d)) = 1

\* C27 witness: a user who stored 09:56 at offset -6 has one job on each of two
\* days, the scheduler's passes having gone beyond the second day's 09:05
C27_Witness ==
    /\ prefs[CurrentUser].enable_daily_summary
    /\ prefs[CurrentUser].summary_time_local = TimeText(9, 56)
    /\ prefs[CurrentUser].timezone_offset_hours = -6
    /\ PassOver(MinutesPerDay + DefaultTriggerMinute + TRIGGER_WINDOW_MINUTES)
    /\ Cardinality(SummaryJobs(CurrentUser, 0)) = 1
    /\ Cardinality(SummaryJobs(CurrentUser, 1)) = 1

\* ----------------------------------------- the worker loop running without end

\* Only differences of times are compared: the age of a pending job with
\* MAX_AGE_HOURS, the time since the last attempt with RETRY_BACKOFF_MINUTES,
\* the time a thread has run with PROCESSING_TIMEOUT_MINUTES.  Once the clock
\* has reached MaxTime, ten more minutes are counted by moving the stored times
\* back instead of now forward.  A time is followed as far back as its limit
\* reaches (keep minutes before MaxTime); further back it is beyond the limit
\* for good and stays where it is.
Slid(t, keep) ==
    IF t < MaxTime - keep THEN t
    ELSE IF t - TickMinutes < MaxTime - keep THEN MaxTime - keep
    ELSE t - TickMinutes

SlidOptional(opt, keep) == IF opt = <<>> THEN <<>> ELSE <<Slid(opt[1], keep)>>

\* the times of a job: created_at is read for pending jobs only (line 124)
SlidJob(job) ==
    [job EXCEPT
        !.created_at = Slid(@, IF job.status = "pending"
                               THEN MAX_AGE_HOURS * 60 + 2 * TickMinutes
                               ELSE TickMinutes),
        !.last_attempt_at = SlidOptional(@, RETRY_BACKOFF_MINUTES + TickMinutes),
        !.completed_at = SlidOptional(@, TickMinutes)]

ClockSlides ==
    /\ worker.pc \in {"sleep", "await"}
    /\ ~SomeThreadFinished
    /\ ~SomeThreadAtStore
    /\ ~SomeTimeoutDue
    /\ now + TickMinutes > MaxTime
    /\ jobs' = [j \in DOMAIN jobs |-> SlidJob(jobs[j])]
    /\ threads' = { [th EXCEPT !.started = Slid(@, PROCESSING_TIMEOUT_MINUTES + TickMinutes)] :
                      th \in threads }
    /\ UNCHANGED <<now, faulty, files, worker, transcripts, requests, attempts, lastCall>>
    /\ UNCHANGED schedVars

NextForever == NextWorker \/ ClockSlides

\* the processor alone, over reliable stores, polling for ever
\* the loop sleeps CHECK_INTERVAL_SECONDS after every poll (lines 51-56): time
\* passes again and again, however often the loop is busy in between
ClockFairness == SF_vars(Tick) /\ SF_vars(ClockSlides)

SpecForever ==
    Init /\ [][NextForever]_vars /\ WorkerFairness /\ ClockFairness

\* ---------------------------------------------------------------- C28

\* job j is a transcription job with the given status
TranscriptionJobIs(j, statuses) ==
    /\ j \in JobIds
    /\ jobs[j].job_type = "transcription"
    /\ jobs[j].status \in statuses

\* C28: with the worker loop running on and the job store working, every
\* pending transcription job eventually is completed or failed.
C28_PendingEnds ==
    \A j \in 1..MaxJobs :
        TranscriptionJobIs(j, {"pending"}) ~> TranscriptionJobIs(j, {"completed", "failed"})

\* ------------------------------------- a batch with timezone-aware timestamps

\* two uploads wait in the table; each client sent its recorded_at either
\* naive or with 'Z' (create_audio_file, api.py lines 348-358)
InitMixed ==
    /\ InitIdleScheduler
    /\ now = 0
    /\ faulty = 0
    /\ files = <<[file_size |-> MAX_FILE_SIZE_MB * 1024 * 1024, deleted |-> FALSE],
                 [file_size |-> MAX_FILE_SIZE_MB * 1024 * 1024, deleted |-> FALSE]>>
    /\ \E aware1 \in BOOLEAN, aware2 \in BOOLEAN :
          jobs = create_processing_job(
                    create_processing_job(<<>>, CurrentUser, "transcription", <<1>>, 0, aware1),
                    CurrentUser, "transcription", <<2>>, 0, aware2)
    /\ attempts = <<0, 0>>
    /\ worker = WorkerIdle
    /\ threads = {}
    /\ transcripts = <<>>
    /\ requests = 0
    /\ lastCall = NoCall
    /\ tracking = {}
    /\ events = <<>>

SpecMixed == InitMixed /\ [][NextBatch]_vars

\* ---------------------------------------------------------------- C29

\* the scanned jobs the poll still has in hand: to be evaluated, or found
\* eligible and to be attempted
InHand(w) ==
    w.scanned \cup { w.eligible[i] : i \in DOMAIN w.eligible }

\* C29: while a poll evaluates its scan result, a job that is eligible stays
\* in the poll's hands (to be evaluated, then to be attempted), also when
\* is_job_eligible raises on another job of the same scan.
C29_RaiseSparesOtherJobs ==
    [][ worker.pc = "eval" =>
          \A e \in InHand(worker) :
              is_job_eligible(e.item, now) = "eligible" => e \in InHand(worker') ]_vars

\* ----------------------------------------------- malformed stored times

\* what a user may have stored as summary_time_local: the default, or a text
\* that is not two integers separated by ':'
MalformedTimes == {<<"9", "a", "m">>, <<"0", "9", "0", "0">>, <<"0", "9", ":">>}

InitMalformed ==
    /\ InitCommon
    /\ faulty = 0
    /\ now \in ObserveFrom..(DefaultTriggerMinute + TRIGGER_WINDOW_MINUTES - 1)
    /\ prefs \in [UserIds -> [enable_daily_summary : BOOLEAN,
                              summary_time_local :
                                  {DEFAULT_SUMMARY_TIME_LOCAL} \cup MalformedTimes,
                              timezone_offset_hours : {DEFAULT_TIMEZONE_OFFSET_HOURS}]]
    /\ sched = Started({}, now, TRUE)
    /\ trigger = NoTrigger
    /\ peer = NotRunning

SpecMalformed == InitMalformed /\ [][NextSched]_vars

\* ---------------------------------------------------------------- C30

\* user u's stored summary_time_local is not two integers separated by ':'
Malformed(u) == ParseTime(prefs[u].summary_time_local) = <<>>

\* C30: a user whose summary_time_local is malformed is skipped (no
\* daily_summary job is created for the user), and every other enabled user
\* is still evaluated in the same pass: once a pass inside the trigger window
\* is over, each of them has the day's job.
C30_MalformedUserSkipped ==
    \A u \in UserIds, d \in Dates :
        /\ Malformed(u) => SummaryJobs(u, d) = {}
        /\ (/\ ~Malformed(u)
            /\ prefs[u].enable_daily_summary
            /\ WindowPasses(d) # {}
            /\ sched.pc = "sleep")
           => Cardinality(SummaryJobs(u, d)) = 1

====
